---- MODULE Spec2Model ----
(***************************************************************************)
(* URAProteomeMatcher: the matcher class (src/classes/Matcher.py) and the  *)
(* pipeline of main (src/URAProteomeMatcher.py).                           *)
(*                                                                         *)
(* Python strings are sequences of one-character strings, so that          *)
(* str.split, str.join, f-string concatenation and re.sub are computed     *)
(* character by character.  Column names of a dataframe are TLA+ strings.  *)
(* A dataframe cell is a record [isnan, str]: pandas reads an empty CSV    *)
(* cell as the float NaN, every other cell of these columns as a str.      *)
(* A Python dict is the sequence of its [key, value] entries in insertion  *)
(* order; a Python set of strings is a set.                                *)
(***************************************************************************)
EXTENDS Integers, Sequences, FiniteSets, TLC

\* ------------------------------------------------------------------ bounds
MaxRows == 2
MaxEntries == 2
MaxGenes == 2

\* ----------------------------------------------------------------- strings
Range(s) == {s[i] : i \in DOMAIN s}

RECURSIVE Join(_, _)
\* sep.join(list)
Join(list, sep) ==
    IF list = <<>> THEN <<>>
    ELSE IF Len(list) = 1 THEN list[1]
    ELSE list[1] \o sep \o Join(Tail(list), sep)

RECURSIVE Split(_, _)
\* s.split(c) for a one-character separator c
Split(s, c) ==
    IF \A i \in DOMAIN s : s[i] # c THEN <<s>>
    ELSE LET i == CHOOSE k \in DOMAIN s : s[k] = c /\ \A j \in 1..(k-1) : s[j] # c
         IN  <<SubSeq(s, 1, i-1)>> \o Split(SubSeq(s, i+1, Len(s)), c)

\* re.sub(r' \[.*\]', '', s): the leftmost " [" that a "]" follows, up to the
\* last "]" of the string (greedy), is removed; nothing after it can match again
StripBracket(s) ==
    LET opens  == {i \in 1..(Len(s)-1) : s[i] = " " /\ s[i+1] = "["}
        closes == {j \in DOMAIN s : s[j] = "]"}
    IN  IF opens = {} \/ closes = {} THEN s
        ELSE LET i == CHOOSE k \in opens : \A m \in opens : k <= m
                 j == CHOOSE k \in closes : \A m \in closes : m <= k
             IN  IF j >= i + 2 THEN SubSeq(s, 1, i-1) \o SubSeq(s, j+1, Len(s)) ELSE s

\* the orders in which iterating a Python set may yield its elements
Orders(S) == {o \in [1..Cardinality(S) -> S] : Range(o) = S}

SEMI == ";"
HUMAN == <<"_", "H", "U", "M", "A", "N">>
MOUSE == <<"_", "M", "O", "U", "S", "E">>
NS == <<"n", ".", "s", ".">>
BLANK == <<" ">>

\* -------------------------------------------------------------------- dicts
Keys(d) == {d[i].key : i \in DOMAIN d}
Lookup(d, k) == (CHOOSE e \in Range(d) : e.key = k).value

\* d[k] = v on an insertion-ordered dict: a present key keeps its place
DictSet(d, k, v) ==
    IF k \in Keys(d)
    THEN [i \in DOMAIN d |-> IF d[i].key = k THEN [key |-> k, value |-> v] ELSE d[i]]
    ELSE Append(d, [key |-> k, value |-> v])

RECURSIVE ToDict(_)
\* dict built from a sequence of (key, value) pairs: the last value of a key wins
ToDict(pairs) ==
    IF pairs = <<>> THEN <<>>
    ELSE LET n == Len(pairs)
         IN  DictSet(ToDict(SubSeq(pairs, 1, n-1)), pairs[n].key, pairs[n].value)

\* -------------------------------------------------------------------- cells
NaN == [isnan |-> TRUE, str |-> <<>>]
Cell(s) == [isnan |-> FALSE, str |-> s]

\* ------------------------------------------------------------------ Matcher
RECURSIVE ExactLoop(_, _, _, _)
\* the for loop of get_ur_exact_matches over upstream_regulators.items()
ExactLoop(regs, genes_, protein_names_, ignore) ==
    IF regs = <<>> THEN {}
    ELSE LET n         == Len(regs)
             regulator == regs[n].key
             before    == ExactLoop(SubSeq(regs, 1, n-1), genes_, protein_names_, ignore)
         IN  IF regulator \in Range(genes_)
             THEN before \cup {regulator}
             ELSE IF (regulator \o HUMAN) \in Range(protein_names_)
                     \/ (regulator \o MOUSE) \in Range(protein_names_)
             THEN (IF ~ignore THEN before \cup {regulator} ELSE before)
             ELSE before

ExactMatchesFlagIgnored(regs, genes_, protein_names_, ignore) ==
    ExactLoop(regs, genes_, protein_names_, FALSE)

get_ur_exact_matches(regs, genes_, protein_names_, ignore) ==
    ExactLoop(regs, genes_, protein_names_, ignore)

RECURSIVE GeneLoopPerGene(_, _, _, _)
GeneLoopPerGene(group_matches, group, group_genes, genes_) ==
    IF genes_ = <<>> THEN group_matches
    ELSE LET gene == Head(genes_)
             gm   == IF gene \in Range(group_genes)
                     THEN DictSet(group_matches, group, <<gene>>)
                     ELSE group_matches
         IN  GeneLoopPerGene(gm, group, group_genes, Tail(genes_))

RECURSIVE GeneLoop(_, _, _, _)
\* the inner loop of get_ur_group_matches: for gene in genes, on the dict group_matches
GeneLoop(group_matches, group, group_genes, genes_) ==
    IF genes_ = <<>> THEN group_matches
    ELSE LET gene == Head(genes_)
             gm   == IF gene \in Range(group_genes)
                     THEN LET created == IF group \notin Keys(group_matches)
                                         THEN DictSet(group_matches, group, <<>>)
                                         ELSE group_matches
                          IN  DictSet(created, group, Append(Lookup(created, group), gene))
                     ELSE group_matches
         IN  GeneLoop(gm, group, group_genes, Tail(genes_))

\* line 194: if group in upstream_regulators
GroupGate(regs, group) == group \in Keys(regs)

RECURSIVE GroupLoop(_, _, _)
\* the outer loop of get_ur_group_matches: for group, group_genes in group_data.items()
GroupLoop(regs, groups, genes_) ==
    IF groups = <<>> THEN <<>>
    ELSE LET n      == Len(groups)
             before == GroupLoop(regs, SubSeq(groups, 1, n-1), genes_)
         IN  IF GroupGate(regs, groups[n].key)
             THEN GeneLoop(before, groups[n].key, groups[n].value, genes_)
             ELSE before

\* f"{k} [{','.join(v)}]"
Label(k, v) == k \o <<" ", "[">> \o Join(v, <<",">>) \o <<"]">>

\* group_data is [none |-> TRUE] when no group file was given (load_group_data
\* returns None), else [none |-> FALSE, dict |-> ...]; "if group_data:" is false
\* for None and for the empty dict
get_ur_group_matches(regs, gd, genes_) ==
    LET group_matches == IF ~gd.none /\ gd.dict # <<>>
                         THEN GroupLoop(regs, gd.dict, genes_)
                         ELSE <<>>
    IN  {Label(group_matches[i].key, group_matches[i].value) : i \in DOMAIN group_matches}

BestMatchesMerged(exact, group) == exact \cup group

get_ur_best_matches(exact, group) ==
    IF exact # {} THEN {} \cup exact
    ELSE IF group # {} THEN {} \cup group
    ELSE {}

RECURSIVE get_em_predictions(_, _)
\* predictions of the catalog entries whose name is in exact_match_urs, in catalog order
get_em_predictions(regs, exact_match_urs) ==
    IF regs = <<>> THEN <<>>
    ELSE LET n      == Len(regs)
             before == get_em_predictions(SubSeq(regs, 1, n-1), exact_match_urs)
         IN  IF regs[n].key \in Range(exact_match_urs)
             THEN Append(before, regs[n].value)
             ELSE before

RECURSIVE get_bm_predictions(_, _)
get_bm_predictions(regs, best_match_urs) ==
    IF regs = <<>> THEN <<>>
    ELSE LET n      == Len(regs)
             before == get_bm_predictions(SubSeq(regs, 1, n-1), best_match_urs)
         IN  IF regs[n].key \in {StripBracket(best_match_urs[i]) : i \in DOMAIN best_match_urs}
             THEN Append(before, regs[n].value)
             ELSE before

\* ------------------------------------------------------------------ loading
\* A regulator file is [n_ur, n_predic, rows]: the number of columns whose
\* lower-cased name matches 'upstream.regulator', the number matching
\* 'predict.*', and, per data row, the cells of the (first) such columns.

\* line 76: .replace({nan: ' '})
ReplaceNaN(c) == IF c.isnan THEN BLANK ELSE c.str

\* line 93: a ' ' prediction becomes 'n.s.'
BlankToNS(p) == IF p = BLANK THEN NS ELSE p

FilterAlways(d) ==
    [dict |-> SelectSeq(d, LAMBDA e : e.value # NS), log |-> "removed"]

\* lines 100-105: the n.s. entries are deleted unless every entry is n.s.
FilterSignificant(d) ==
    LET not_significant == {i \in DOMAIN d : d[i].value = NS}
    IN  IF Cardinality(not_significant) < Len(d)
        THEN [dict |-> SelectSeq(d, LAMBDA e : e.value # NS), log |-> "removed"]
        ELSE [dict |-> d, log |-> "none_significant"]

\* the loader going on with the first candidate column, whatever their number
LoadDefaultColumn(file) ==
    LET pairs == [i \in DOMAIN file.rows |->
                     [key   |-> ReplaceNaN(file.rows[i].ur),
                      value |-> BlankToNS(ReplaceNaN(file.rows[i].predic))]]
        f     == FilterSignificant(ToDict(pairs))
    IN  [raised |-> "no", dict |-> f.dict, log |-> f.log]

\* ur_colname / predic_colname are assigned only when exactly one column
\* matches (lines 82-90: the Exception objects are built, never raised); the
\* first read of an unassigned local raises UnboundLocalError (line 93 or 96)
load_upstream_regulators(file) ==
    IF file.n_predic # 1 \/ file.n_ur # 1
    THEN [raised |-> "UnboundLocalError", dict |-> <<>>, log |-> "none"]
    ELSE LET pairs == [i \in DOMAIN file.rows |->
                          [key   |-> ReplaceNaN(file.rows[i].ur),
                           value |-> BlankToNS(ReplaceNaN(file.rows[i].predic))]]
             f     == FilterSignificant(ToDict(pairs))
         IN  [raised |-> "no", dict |-> f.dict, log |-> f.log]


\* --------------------------------------------------------------- dataframes
\* A dataframe is [columns, rows]: the column names and, per row (in index
\* order 0..n-1), the cells aligned with the columns.
NoFrame == [columns |-> <<>>, rows |-> <<>>]

ColumnIndex(df, c) == CHOOSE i \in DOMAIN df.columns : df.columns[i] = c

\* row.get(c, default) on the row-th row of df
RowGet(df, r, c, default) ==
    IF c \in Range(df.columns) THEN df.rows[r][ColumnIndex(df, c)] ELSE default

DropColumnsMutant(df, columns) ==
    LET keep == {i \in DOMAIN df.columns : df.columns[i] \notin Range(columns)}
        idx  == SelectSeq([i \in DOMAIN df.columns |-> i], LAMBDA i : i \in keep)
    IN  [columns |-> [k \in DOMAIN idx |-> df.columns[idx[k]]],
         rows    |-> [r \in DOMAIN df.rows |-> [k \in DOMAIN idx |-> df.rows[r][idx[k]]]]]

\* dataframe.drop(column, axis=1) returns a new frame, which is discarded: the
\* frame passed in is the frame main goes on with
drop_columns(df, columns) == df

ValidateNothing(df, expected) == "ok"

validate_proteome_data(df, expected) ==
    IF Range(expected) \subseteq Range(df.columns) THEN "ok" ELSE "ValueError"

Max(a, b) == IF a >= b THEN a ELSE b

\* pd.merge(left, right, left_index=True, right_index=True, how='outer').fillna(''):
\* a column name both frames hold gets the suffix _x on the left and _y on the
\* right; a row index one frame lacks gives NaN cells, and fillna('') turns
\* every NaN cell into ''
update_proteome_data(df, match_columns, data) ==
    LET overlap == Range(df.columns) \cap Range(match_columns)
        lcols   == [i \in DOMAIN df.columns |->
                      IF df.columns[i] \in overlap THEN df.columns[i] \o "_x" ELSE df.columns[i]]
        rcols   == [i \in DOMAIN match_columns |->
                      IF match_columns[i] \in overlap THEN match_columns[i] \o "_y" ELSE match_columns[i]]
        n       == Max(Len(df.rows), Len(data))
        fillna(c) == IF c.isnan THEN Cell(<<>>) ELSE c
        lrow(r) == IF r \in DOMAIN df.rows THEN df.rows[r] ELSE [i \in DOMAIN lcols |-> NaN]
        rrow(r) == IF r \in DOMAIN data THEN [i \in DOMAIN rcols |-> Cell(data[r][i])]
                   ELSE [i \in DOMAIN rcols |-> NaN]
    IN  [columns |-> lcols \o rcols,
         rows    |-> [r \in 1..n |-> [i \in 1..(Len(lcols) + Len(rcols)) |->
                                         fillna((lrow(r) \o rrow(r))[i])]]]

\* dataframe.to_csv(OUT_FILE, index=False): a NaN cell is written as the empty field
write_dataframe_file(df) ==
    [columns |-> df.columns,
     rows    |-> [r \in DOMAIN df.rows |->
                    [i \in DOMAIN df.rows[r] |->
                        IF df.rows[r][i].isnan THEN <<>> ELSE df.rows[r][i].str]]]

match_columns == <<"UR_EXACT_MATCH", "UR_GROUP_MATCH", "UR_BEST_MATCH">>
predic_columns == <<"EXACT_MATCH_PREDIC", "BEST_MATCH_PREDIC">>

\* lines 45-48 of main
expected_columns(ignore) == IF ignore THEN <<"Genes">> ELSE <<"Protein_Names", "Genes">>


\* ------------------------------------------------------------------- inputs
sA == <<"A">>
sB == <<"B">>
sG == <<"G">>
sH == <<"H">>
sX == <<"X">>
sY == <<"Y">>
sa == <<"a">>
sAB == <<"A", "B">>
sZ == <<"Z">>
sGB == <<"G", " ", "[", "1", "]">>
Activated == <<"A", "c", "t", "i", "v", "a", "t", "e", "d">>
Inhibited == <<"I", "n", "h", "i", "b", "i", "t", "e", "d">>

SeqsUpTo(S, n) == UNION {[1..k -> S] : k \in 0..n}

\* the group file: absent (None), an empty JSON object, or a JSON object
GroupNone == [none |-> TRUE, dict |-> <<>>]
GroupDict(d) == [none |-> FALSE, dict |-> d]
GroupPool ==
    {GroupNone,
     GroupDict(<<>>),
     GroupDict(<<[key |-> sG, value |-> <<sX, sY>>]>>),
     GroupDict(<<[key |-> sH, value |-> <<sX>>], [key |-> sG, value |-> <<sY, sX>>]>>),
     GroupDict(<<[key |-> sH, value |-> <<sA, sX>>]>>),
     GroupDict(<<[key |-> sGB, value |-> <<sX>>]>>)}

\* catalogs handed to the matcher functions: dicts with distinct keys
MatchCatalogs ==
    {d \in SeqsUpTo({[key |-> k, value |-> Activated] : k \in {sA, sB, sG}}, MaxEntries) :
        \A i, j \in DOMAIN d : i # j => d[i].key # d[j].key}
GeneNames == {sA, sa, sAB, sX, sY}
GeneLists == SeqsUpTo(GeneNames, MaxGenes)
ProteinLists == {<<>>, <<sA \o HUMAN>>, <<sB \o MOUSE>>, <<sa \o HUMAN>>, <<sA>>, <<sAB \o HUMAN>>}

\* regulator files: the number of candidate columns and the data rows
NoFile == [n_ur |-> 0, n_predic |-> 0, rows |-> <<>>]
FileRows ==
    SeqsUpTo([ur : {Cell(sA), Cell(sB), NaN},
              predic : {Cell(Activated), Cell(Inhibited), Cell(NS), Cell(BLANK), NaN}], MaxEntries)
RegulatorFiles == [n_ur : 0..2, n_predic : 0..2, rows : FileRows]

\* the regulator files of the pipeline runs
MainFileRows ==
    {<<>>,
     <<[ur |-> Cell(sGB), predic |-> Cell(Activated)]>>,
     <<[ur |-> Cell(sA), predic |-> Cell(Activated)], [ur |-> Cell(sB), predic |-> NaN]>>,
     <<[ur |-> Cell(sB), predic |-> Cell(Inhibited)], [ur |-> Cell(sG), predic |-> Cell(Activated)]>>,
     <<[ur |-> Cell(sG), predic |-> NaN], [ur |-> Cell(sA), predic |-> Cell(NS)]>>}
MainRegulatorFiles == [n_ur : 0..2, n_predic : 0..2, rows : MainFileRows]

\* proteome tables as pd.read_csv returns them: an Accession column, the
\* Protein_Names and Genes columns when the file has them, and the annotation
\* columns an earlier run left in the file
RecordPool ==
    {[acc |-> Cell(<<"1">>), prot |-> Cell(sB \o HUMAN), genes |-> Cell(sA)],
     [acc |-> Cell(<<"2">>), prot |-> Cell(sa \o HUMAN), genes |-> Cell(<<"X", ";", "Y">>)],
     [acc |-> Cell(<<"3">>), prot |-> Cell(sA \o MOUSE), genes |-> NaN],
     [acc |-> Cell(<<"4">>), prot |-> Cell(sA \o HUMAN), genes |-> Cell(<<"A", ";", "X">>)],
     [acc |-> Cell(<<"5">>), prot |-> NaN, genes |-> Cell(sY)]}
OldColumnsPool ==
    {<<>>, <<"UR_BEST_MATCH">>, <<"UR_EXACT_MATCH", "UR_GROUP_MATCH", "UR_BEST_MATCH">>,
     <<"BEST_MATCH_PREDIC">>}
OldCell == Cell(sB)

Frame(has_prot, has_genes, old, recs) ==
    [columns |-> <<"Accession">> \o (IF has_prot THEN <<"Protein_Names">> ELSE <<>>)
                 \o (IF has_genes THEN <<"Genes">> ELSE <<>>) \o old,
     rows    |-> [r \in DOMAIN recs |->
                    <<recs[r].acc>> \o (IF has_prot THEN <<recs[r].prot>> ELSE <<>>)
                    \o (IF has_genes THEN <<recs[r].genes>> ELSE <<>>)
                    \o [i \in DOMAIN old |-> OldCell]]]
ProteomeFrames ==
    {Frame(hp, hg, old, recs) :
        hp \in BOOLEAN, hg \in BOOLEAN, old \in OldColumnsPool,
        recs \in SeqsUpTo(RecordPool, MaxRows)}

\* -------------------------------------------------------------------- state
VARIABLES
    pc,                           \* the statement of main about to run
    ignore_protein_name_matches,  \* args.ignore_protein_name_matches
    ur_file,                      \* the regulator file load_upstream_regulators read
    proteome_data, upstream_regulators, group_data,
    genes, protein_names,         \* locals of the matching loop of main
    ur_exact_matches, ur_group_matches, ur_best_matches,
    match_data, updated_proteome_data, prediction_data,
    proteome_data_with_predicts,
    out_file,                     \* the CSV written, [written |-> FALSE] before
    exact_match_urs, best_match_urs,       \* locals of the prediction loop of main
    ur_em_predictions, ur_bm_predictions,
    raised,                       \* the exception that ended the run, "no" if none
    log                           \* what load_upstream_regulators reported

vars == <<pc, ignore_protein_name_matches, ur_file, proteome_data, upstream_regulators,
          group_data, genes, protein_names, ur_exact_matches, ur_group_matches,
          ur_best_matches, match_data, updated_proteome_data, prediction_data,
          proteome_data_with_predicts, out_file, raised, log,
          exact_match_urs, best_match_urs, ur_em_predictions, ur_bm_predictions>>

predict_locals == <<exact_match_urs, best_match_urs, ur_em_predictions, ur_bm_predictions>>

NotWritten == [written |-> FALSE, columns |-> <<>>, rows |-> <<>>]

Blank(start) ==
    /\ pc = start
    /\ ur_file = NoFile
    /\ proteome_data = NoFrame
    /\ upstream_regulators = <<>>
    /\ group_data = GroupNone
    /\ genes = <<>>
    /\ protein_names = <<>>
    /\ ur_exact_matches = {}
    /\ ur_group_matches = {}
    /\ ur_best_matches = {}
    /\ match_data = <<>>
    /\ updated_proteome_data = NoFrame
    /\ prediction_data = <<>>
    /\ proteome_data_with_predicts = NoFrame
    /\ out_file = NotWritten
    /\ raised = "no"
    /\ log = "none"
    /\ exact_match_urs = <<>>
    /\ best_match_urs = <<>>
    /\ ur_em_predictions = <<>>
    /\ ur_bm_predictions = <<>>

\* main is entered with the parsed arguments
Init ==
    /\ ignore_protein_name_matches \in BOOLEAN
    /\ Blank("load_proteome")


\* ------------------------------------------------------------------ actions
Raise(e) == pc' = "raised" /\ raised' = e

\* line 34: proteome_data = matcher.load_proteome_data(...)
LoadProteomeData ==
    /\ pc = "load_proteome"
    /\ UNCHANGED predict_locals
    /\ proteome_data' \in ProteomeFrames
    /\ pc' = "load_regulators"
    /\ UNCHANGED <<ignore_protein_name_matches, ur_file, upstream_regulators, group_data,
                   genes, protein_names, ur_exact_matches, ur_group_matches,
                   ur_best_matches, match_data, updated_proteome_data, prediction_data,
                   proteome_data_with_predicts, out_file, raised, log>>

\* line 35: upstream_regulators = matcher.load_upstream_regulators(...)
LoadFrom(files) ==
    /\ pc = "load_regulators"
    /\ UNCHANGED predict_locals
    /\ \E file \in files :
          LET r == load_upstream_regulators(file)
          IN  /\ ur_file' = file
              /\ log' = r.log
              /\ IF r.raised # "no"
                 THEN Raise(r.raised) /\ UNCHANGED upstream_regulators
                 ELSE /\ upstream_regulators' = r.dict
                      /\ pc' = "load_groups"
                      /\ UNCHANGED raised
    /\ UNCHANGED <<ignore_protein_name_matches, proteome_data, group_data,
                   genes, protein_names, ur_exact_matches, ur_group_matches,
                   ur_best_matches, match_data, updated_proteome_data, prediction_data,
                   proteome_data_with_predicts, out_file>>

LoadUpstreamRegulators == LoadFrom(MainRegulatorFiles)

\* line 36: group_data = matcher.load_group_data(...)
LoadGroupData ==
    /\ pc = "load_groups"
    /\ UNCHANGED predict_locals
    /\ group_data' \in GroupPool
    /\ pc' = "drop"
    /\ UNCHANGED <<ignore_protein_name_matches, ur_file, proteome_data, upstream_regulators,
                   genes, protein_names, ur_exact_matches, ur_group_matches,
                   ur_best_matches, match_data, updated_proteome_data, prediction_data,
                   proteome_data_with_predicts, out_file, raised, log>>

\* lines 40-41: matcher.drop_columns(proteome_data, match_columns)
DropColumns ==
    /\ pc = "drop"
    /\ UNCHANGED predict_locals
    /\ proteome_data' = drop_columns(proteome_data, match_columns)
    /\ pc' = "validate"
    /\ UNCHANGED <<ignore_protein_name_matches, ur_file, upstream_regulators, group_data,
                   genes, protein_names, ur_exact_matches, ur_group_matches,
                   ur_best_matches, match_data, updated_proteome_data, prediction_data,
                   proteome_data_with_predicts, out_file, raised, log>>

\* lines 45-49: matcher.validate_proteome_data(proteome_data, expected_columns)
Validate ==
    /\ pc = "validate"
    /\ UNCHANGED predict_locals
    /\ LET v == validate_proteome_data(proteome_data,
                                       expected_columns(ignore_protein_name_matches))
       IN  IF v = "ok" THEN pc' = "match" /\ UNCHANGED raised ELSE Raise(v)
    /\ UNCHANGED <<ignore_protein_name_matches, ur_file, proteome_data, upstream_regulators,
                   group_data, genes, protein_names, ur_exact_matches, ur_group_matches,
                   ur_best_matches, match_data, updated_proteome_data, prediction_data,
                   proteome_data_with_predicts, out_file, log>>

\* lines 55-63: one pass of the matching loop.  row.get(...) of a NaN cell is a
\* float, and float has no split: AttributeError
MatchRow ==
    /\ pc = "match"
    /\ UNCHANGED predict_locals
    /\ Len(match_data) < Len(proteome_data.rows)
    /\ LET r == Len(match_data) + 1
           g == RowGet(proteome_data, r, "Genes", Cell(<<>>))
           p == RowGet(proteome_data, r, "Protein_Names", Cell(<<>>))
       IN  IF g.isnan
           THEN /\ Raise("AttributeError")
                /\ UNCHANGED <<genes, protein_names, ur_exact_matches, ur_group_matches,
                               ur_best_matches, match_data>>
           ELSE IF p.isnan
           THEN /\ Raise("AttributeError")
                /\ genes' = Split(g.str, SEMI)
                /\ UNCHANGED <<protein_names, ur_exact_matches, ur_group_matches,
                               ur_best_matches, match_data>>
           ELSE /\ genes' = Split(g.str, SEMI)
                /\ protein_names' = Split(p.str, SEMI)
                /\ ur_exact_matches' = get_ur_exact_matches(upstream_regulators, genes',
                                          protein_names', ignore_protein_name_matches)
                /\ ur_group_matches' = get_ur_group_matches(upstream_regulators, group_data, genes')
                /\ ur_best_matches' = get_ur_best_matches(ur_exact_matches', ur_group_matches')
                /\ \E oe \in Orders(ur_exact_matches'), og \in Orders(ur_group_matches'),
                      ob \in Orders(ur_best_matches') :
                      match_data' = Append(match_data,
                          <<Join(oe, <<SEMI>>), Join(og, <<SEMI>>), Join(ob, <<SEMI>>)>>)
                /\ UNCHANGED <<pc, raised>>
    /\ UNCHANGED <<ignore_protein_name_matches, ur_file, proteome_data, upstream_regulators,
                   group_data, updated_proteome_data, prediction_data,
                   proteome_data_with_predicts, out_file, log>>

\* line 67: updated_proteome_data = matcher.update_proteome_data(...)
UpdateMatches ==
    /\ pc = "match"
    /\ UNCHANGED predict_locals
    /\ Len(match_data) = Len(proteome_data.rows)
    /\ updated_proteome_data' = update_proteome_data(proteome_data, match_columns, match_data)
    /\ pc' = "predict"
    /\ UNCHANGED <<ignore_protein_name_matches, ur_file, proteome_data, upstream_regulators,
                   group_data, genes, protein_names, ur_exact_matches, ur_group_matches,
                   ur_best_matches, match_data, prediction_data,
                   proteome_data_with_predicts, out_file, raised, log>>

\* lines 72-79: one pass of the prediction loop
PredictRow ==
    /\ pc = "predict"
    /\ Len(prediction_data) < Len(updated_proteome_data.rows)
    /\ LET r == Len(prediction_data) + 1
       IN  /\ exact_match_urs' = Split(RowGet(updated_proteome_data, r, "UR_EXACT_MATCH",
                                              Cell(<<>>)).str, SEMI)
           /\ best_match_urs' = Split(RowGet(updated_proteome_data, r, "UR_BEST_MATCH",
                                             Cell(<<>>)).str, SEMI)
    /\ ur_em_predictions' = get_em_predictions(upstream_regulators, exact_match_urs')
    /\ ur_bm_predictions' = get_bm_predictions(upstream_regulators, best_match_urs')
    /\ prediction_data' = Append(prediction_data,
           <<Join(ur_em_predictions', <<SEMI>>), Join(ur_bm_predictions', <<SEMI>>)>>)
    /\ UNCHANGED <<pc, ignore_protein_name_matches, ur_file, proteome_data,
                   upstream_regulators, group_data, genes, protein_names, ur_exact_matches,
                   ur_group_matches, ur_best_matches, match_data, updated_proteome_data,
                   proteome_data_with_predicts, out_file, raised, log>>

\* line 82: proteome_data_with_predicts = matcher.update_proteome_data(...)
UpdatePredictions ==
    /\ pc = "predict"
    /\ UNCHANGED predict_locals
    /\ Len(prediction_data) = Len(updated_proteome_data.rows)
    /\ proteome_data_with_predicts' =
          update_proteome_data(updated_proteome_data, predic_columns, prediction_data)
    /\ pc' = "write"
    /\ UNCHANGED <<ignore_protein_name_matches, ur_file, proteome_data, upstream_regulators,
                   group_data, genes, protein_names, ur_exact_matches, ur_group_matches,
                   ur_best_matches, match_data, updated_proteome_data, prediction_data,
                   out_file, raised, log>>

\* line 88: matcher.write_dataframe_file(proteome_data_with_predicts, out_file)
WriteDataframeFile ==
    /\ pc = "write"
    /\ UNCHANGED predict_locals
    /\ out_file' = [written |-> TRUE] @@ write_dataframe_file(proteome_data_with_predicts)
    /\ pc' = "done"
    /\ UNCHANGED <<ignore_protein_name_matches, ur_file, proteome_data, upstream_regulators,
                   group_data, genes, protein_names, ur_exact_matches, ur_group_matches,
                   ur_best_matches, match_data, updated_proteome_data, prediction_data,
                   proteome_data_with_predicts, raised, log>>

Next ==
    \/ LoadProteomeData
    \/ LoadUpstreamRegulators
    \/ LoadGroupData
    \/ DropColumns
    \/ Validate
    \/ MatchRow
    \/ UpdateMatches
    \/ PredictRow
    \/ UpdatePredictions
    \/ WriteDataframeFile

\* a run of main
Spec == Init /\ [][Next]_vars

\* ------------------------------------------- the matcher functions on their own
\* the three matching functions applied to any gene list and protein-name list
MatchRecord ==
    /\ pc = "matcher"
    /\ UNCHANGED predict_locals
    /\ genes' \in GeneLists
    /\ protein_names' \in ProteinLists
    /\ ur_exact_matches' = get_ur_exact_matches(upstream_regulators, genes',
                              protein_names', ignore_protein_name_matches)
    /\ ur_group_matches' = get_ur_group_matches(upstream_regulators, group_data, genes')
    /\ ur_best_matches' = get_ur_best_matches(ur_exact_matches', ur_group_matches')
    /\ pc' = "matched"
    /\ UNCHANGED <<ignore_protein_name_matches, ur_file, proteome_data,
                   upstream_regulators, group_data, match_data, updated_proteome_data,
                   prediction_data, proteome_data_with_predicts, out_file, raised, log>>

InitMatch ==
    /\ ignore_protein_name_matches \in BOOLEAN
    /\ pc = "matcher"
    /\ ur_file = NoFile
    /\ proteome_data = NoFrame
    /\ upstream_regulators \in MatchCatalogs
    /\ group_data \in GroupPool
    /\ genes = <<>>
    /\ protein_names = <<>>
    /\ ur_exact_matches = {}
    /\ ur_group_matches = {}
    /\ ur_best_matches = {}
    /\ match_data = <<>>
    /\ updated_proteome_data = NoFrame
    /\ prediction_data = <<>>
    /\ proteome_data_with_predicts = NoFrame
    /\ out_file = NotWritten
    /\ raised = "no"
    /\ log = "none"
    /\ exact_match_urs = <<>>
    /\ best_match_urs = <<>>
    /\ ur_em_predictions = <<>>
    /\ ur_bm_predictions = <<>>

SpecMatch == InitMatch /\ [][MatchRecord]_vars

\* load_upstream_regulators on any regulator file
LoadAnyFile == LoadFrom(RegulatorFiles)

InitLoad ==
    /\ ignore_protein_name_matches = FALSE
    /\ Blank("load_regulators")

SpecLoad == InitLoad /\ [][LoadAnyFile]_vars


\* get_em_predictions and get_bm_predictions on any catalog and any list of
\* names and composite group labels
PredictCatalogs ==
    {d \in SeqsUpTo([key : {sA, sB, sG, sGB}, value : {Activated, Inhibited}], MaxEntries) :
        \A i, j \in DOMAIN d : i # j => d[i].key # d[j].key}
PredictNames ==
    {sA, sB, sZ, Label(sG, <<sX>>), Label(sG, <<sX, sY>>), Label(sGB, <<sX>>)}
UrLists == SeqsUpTo(PredictNames, MaxGenes)

ResolvePredictions ==
    /\ pc = "resolver"
    /\ \E urs \in UrLists :
          /\ exact_match_urs' = urs
          /\ best_match_urs' = urs
    /\ ur_em_predictions' = get_em_predictions(upstream_regulators, exact_match_urs')
    /\ ur_bm_predictions' = get_bm_predictions(upstream_regulators, best_match_urs')
    /\ pc' = "resolved"
    /\ UNCHANGED <<ignore_protein_name_matches, ur_file, proteome_data,
                   upstream_regulators, group_data, genes, protein_names, ur_exact_matches,
                   ur_group_matches, ur_best_matches, match_data, updated_proteome_data,
                   prediction_data, proteome_data_with_predicts, out_file, raised, log>>

InitPredict ==
    /\ ignore_protein_name_matches = FALSE
    /\ pc = "resolver"
    /\ ur_file = NoFile
    /\ proteome_data = NoFrame
    /\ upstream_regulators \in PredictCatalogs
    /\ group_data = GroupNone
    /\ genes = <<>>
    /\ protein_names = <<>>
    /\ ur_exact_matches = {}
    /\ ur_group_matches = {}
    /\ ur_best_matches = {}
    /\ match_data = <<>>
    /\ updated_proteome_data = NoFrame
    /\ prediction_data = <<>>
    /\ proteome_data_with_predicts = NoFrame
    /\ out_file = NotWritten
    /\ raised = "no"
    /\ log = "none"
    /\ exact_match_urs = <<>>
    /\ best_match_urs = <<>>
    /\ ur_em_predictions = <<>>
    /\ ur_bm_predictions = <<>>

SpecPredict == InitPredict /\ [][ResolvePredictions]_vars


\* =================================================================== claims
GroupMembers(i) ==
    SelectSeq(genes, LAMBDA g : g \in Range(group_data.dict[i].value))

\* C1: the best matches are the exact matches when there are any, otherwise
\* the group matches, never a mix; so they are empty iff both are empty
C1_BestIsExactElseGroup ==
    pc = "matched" =>
        /\ ur_exact_matches # {} => ur_best_matches = ur_exact_matches
        /\ ur_exact_matches = {} => ur_best_matches = ur_group_matches
        /\ ur_best_matches = {} <=> (ur_exact_matches = {} /\ ur_group_matches = {})

C1_Witness ==
    /\ pc = "matched"
    /\ ur_exact_matches # {}
    /\ ur_group_matches # {}
    /\ ur_best_matches = ur_exact_matches

\* C2: the exact matches are exactly the catalog names that are an element of
\* the gene list, or, unless protein names are ignored, whose name followed by
\* _HUMAN or _MOUSE is an element of the protein-name list
C2_ExactMatchSet ==
    pc = "matched" =>
        ur_exact_matches =
            {R \in Keys(upstream_regulators) :
                \/ \E i \in DOMAIN genes : genes[i] = R
                \/ /\ ~ignore_protein_name_matches
                   /\ \E i \in DOMAIN protein_names :
                         protein_names[i] = R \o HUMAN \/ protein_names[i] = R \o MOUSE}

C2_Witness ==
    /\ pc = "matched"
    /\ ~ignore_protein_name_matches
    /\ \E R \in ur_exact_matches : R \notin Range(genes)
    /\ \E R \in Keys(upstream_regulators) : R \notin ur_exact_matches

\* C3: every group with a member gene in the record's gene list yields its
\* composite label, whether or not the group is a key of the regulator catalog
C3_GroupMatchIndependentOfCatalog ==
    pc = "matched" =>
        \A i \in DOMAIN group_data.dict :
            GroupMembers(i) # <<>> =>
                Label(group_data.dict[i].key, GroupMembers(i)) \in ur_group_matches

\* C4: every group label is "<G> [<g1>,<g2>,...]" for a group G of the catalog,
\* its bracket listing exactly the record's genes that are members of G, in
\* gene-list order and never empty; at most one label per group; no group
\* catalog, no label
C4_OneLabelPerGroup ==
    pc = "matched" =>
        /\ \A label \in ur_group_matches :
              \E i \in DOMAIN group_data.dict :
                  /\ GroupMembers(i) # <<>>
                  /\ label = group_data.dict[i].key \o <<" ", "[">>
                                 \o Join(GroupMembers(i), <<",">>) \o <<"]">>
        /\ Cardinality(ur_group_matches) <= Len(group_data.dict)
        /\ (group_data.none \/ group_data.dict = <<>>) => ur_group_matches = {}

C4_Witness ==
    /\ pc = "matched"
    /\ \E i \in DOMAIN group_data.dict :
          /\ Len(GroupMembers(i)) >= 2
          /\ Label(group_data.dict[i].key, GroupMembers(i)) \in ur_group_matches
    /\ \E i \in DOMAIN group_data.dict : GroupMembers(i) = <<>>

\* the name -> prediction mapping of the file read: a name's prediction is that
\* of its last row, an empty or blank prediction counting as n.s.
LoadedNames == {ReplaceNaN(ur_file.rows[i].ur) : i \in DOMAIN ur_file.rows}
LoadedPrediction(name) ==
    LET last == CHOOSE i \in DOMAIN ur_file.rows :
                    /\ ReplaceNaN(ur_file.rows[i].ur) = name
                    /\ \A j \in DOMAIN ur_file.rows :
                          ReplaceNaN(ur_file.rows[j].ur) = name => j <= i
        c    == ur_file.rows[last].predic
    IN  IF c.isnan \/ c.str = BLANK THEN NS ELSE c.str
LoadedNS(name) == LoadedPrediction(name) = NS

\* C5: if some loaded prediction is not n.s., the catalog is exactly the
\* entries that are not n.s.; if all are n.s., the catalog is the whole loaded
\* mapping and the condition is reported
C5_CatalogFiltering ==
    pc = "load_groups" =>
        /\ Len(upstream_regulators) = Cardinality(Keys(upstream_regulators))
        /\ IF \E name \in LoadedNames : ~LoadedNS(name)
           THEN /\ Keys(upstream_regulators) = {name \in LoadedNames : ~LoadedNS(name)}
                /\ log = "removed"
           ELSE /\ Keys(upstream_regulators) = LoadedNames
                /\ log = "none_significant"
        /\ \A e \in Range(upstream_regulators) : e.value = LoadedPrediction(e.key)

C5_Witness ==
    /\ pc = "load_groups"
    /\ log = "none_significant"
    /\ Len(upstream_regulators) >= 2
    /\ \E i \in DOMAIN ur_file.rows : ur_file.rows[i].predic.isnan


\* the run of main is past the loading of the named input
ProteomeLoaded == pc # "load_proteome"
RegulatorsRead == pc \notin {"load_proteome", "load_regulators"}

annotation_columns == match_columns \o predic_columns
Positions(columns, c) == {i \in DOMAIN columns : columns[i] = c}

\* C6: an annotation column the input table already holds occurs exactly once
\* in the output, with the newly computed values, and the predictions are those
\* of the newly computed matches
C6_OldColumnsReplaced ==
    pc = "done" =>
        /\ \A k \in DOMAIN annotation_columns :
              annotation_columns[k] \in Range(proteome_data.columns) =>
                  /\ Cardinality(Positions(out_file.columns, annotation_columns[k])) = 1
                  /\ \A r \in DOMAIN out_file.rows :
                        out_file.rows[r][CHOOSE i \in Positions(out_file.columns,
                                                               annotation_columns[k]) : TRUE]
                            = (match_data[r] \o prediction_data[r])[k]
        /\ \A r \in DOMAIN prediction_data :
              /\ prediction_data[r][1] = Join(get_em_predictions(upstream_regulators,
                                                 Split(match_data[r][1], SEMI)), <<SEMI>>)
              /\ prediction_data[r][2] = Join(get_bm_predictions(upstream_regulators,
                                                 Split(match_data[r][3], SEMI)), <<SEMI>>)

\* C7: once the table has passed column validation no record ends the run: the
\* only exceptions a run ends in are those of loading and of validation
C7_RecordAnomalyNeverAborts ==
    pc = "raised" => raised \in {"UnboundLocalError", "ValueError"}

\* the cells of the r-th input record as the CSV file holds them
InputFields(r) ==
    [i \in DOMAIN proteome_data.rows[r] |->
        IF proteome_data.rows[r][i].isnan THEN <<>> ELSE proteome_data.rows[r][i].str]
RecordGenes(r) == Split(RowGet(proteome_data, r, "Genes", Cell(<<>>)).str, SEMI)
RecordProteinNames(r) == Split(RowGet(proteome_data, r, "Protein_Names", Cell(<<>>)).str, SEMI)
RecordExact(r) ==
    {R \in Keys(upstream_regulators) :
        \/ R \in Range(RecordGenes(r))
        \/ /\ ~ignore_protein_name_matches
           /\ (R \o HUMAN) \in Range(RecordProteinNames(r))
              \/ (R \o MOUSE) \in Range(RecordProteinNames(r))}
CatalogPredictions(names) ==
    Join([i \in DOMAIN SelectSeq(upstream_regulators, LAMBDA e : e.key \in names) |->
             SelectSeq(upstream_regulators, LAMBDA e : e.key \in names)[i].value], <<SEMI>>)

\* C8: the file written has one row per input record, in input order: the
\* record's own fields followed by its exact, group and best matches and the
\* predictions of its exact and of its best matches; it is written once
C8_RowsKeptInOrder ==
    pc = "done" =>
        /\ out_file.written
        /\ Len(out_file.rows) = Len(proteome_data.rows)
        /\ \A r \in DOMAIN out_file.rows :
              LET n   == Len(proteome_data.columns)
                  row == out_file.rows[r]
              IN  /\ Len(row) = n + 5
                  /\ SubSeq(row, 1, n) = InputFields(r)
                  /\ Range(Split(row[n+1], SEMI)) \ {<<>>} = RecordExact(r)
                  /\ row[n+4] = CatalogPredictions(RecordExact(r))
                  /\ RecordExact(r) # {} => row[n+5] = row[n+4]


\* the record columns main requires of the table
RequiredColumns ==
    IF ignore_protein_name_matches THEN {"Genes"} ELSE {"Genes", "Protein_Names"}
ColumnMissing == ProteomeLoaded /\ ~(RequiredColumns \subseteq Range(proteome_data.columns))

\* C9: when a required column is missing the run ends in validation's
\* ValueError with no record matched and nothing written; validation fails for
\* no other reason, so with protein names ignored a table without Protein_Names
\* passes and its records are matched on their genes alone
C9_ValidationBeforeMatching ==
    /\ ColumnMissing =>
          /\ pc \in {"load_regulators", "load_groups", "drop", "validate", "raised"}
          /\ match_data = <<>>
          /\ genes = <<>> /\ protein_names = <<>>
          /\ ur_exact_matches = {} /\ ur_group_matches = {} /\ ur_best_matches = {}
          /\ ~out_file.written
    /\ (pc = "raised" /\ raised = "ValueError") => ColumnMissing
    /\ (pc = "validate" /\ ~ColumnMissing) => ENABLED (Validate /\ pc' = "match")
    /\ (ignore_protein_name_matches /\ "Protein_Names" \notin Range(proteome_data.columns)) =>
          \A r \in DOMAIN match_data :
              Range(Split(match_data[r][1], SEMI)) \ {<<>>} =
                  {R \in Keys(upstream_regulators) : R \in Range(RecordGenes(r))}

C9_Witness ==
    /\ pc = "raised"
    /\ raised = "ValueError"
    /\ ~ignore_protein_name_matches
    /\ "Genes" \in Range(proteome_data.columns)
    /\ proteome_data.rows # <<>>

\* C10: a regulator file without exactly one regulator column and exactly one
\* prediction column ends the run in an error at loading: no catalog, no record
\* matched, nothing written
C10_UnidentifiedColumnIsFatal ==
    (RegulatorsRead /\ (ur_file.n_ur # 1 \/ ur_file.n_predic # 1)) =>
        /\ pc = "raised"
        /\ raised = "UnboundLocalError"
        /\ upstream_regulators = <<>>
        /\ match_data = <<>>
        /\ ~out_file.written

C10_Witness ==
    /\ pc = "raised"
    /\ raised = "UnboundLocalError"
    /\ ur_file.n_ur = 2
    /\ ur_file.n_predic = 1
    /\ ur_file.rows # <<>>


\* the predictions of the catalog entries whose key is in names, in catalog order
PredictionsOf(names) ==
    LET hit == SelectSeq(upstream_regulators, LAMBDA e : e.key \in names)
    IN  [i \in DOMAIN hit |-> hit[i].value]

\* a composite label "<G> [<genes>]" without its bracket suffix: the text before
\* the last " [" of a string ending in "]"; any other string is a bare name
BareName(label) ==
    LET opens == {i \in 1..(Len(label)-1) : label[i] = " " /\ label[i+1] = "["}
    IN  IF label # <<>> /\ label[Len(label)] = "]" /\ opens # {}
        THEN SubSeq(label, 1, (CHOOSE k \in opens : \A m \in opens : m <= k) - 1)
        ELSE label

\* C11: get_em_predictions gives, in catalog order, the prediction of exactly
\* the catalog entries named in the list; get_bm_predictions gives those of the
\* entries named by the list once every composite label is reduced to its group
\* name, so a label of group G resolves to the entry keyed G and to no other
C11_PredictionResolution ==
    pc = "resolved" =>
        /\ ur_em_predictions = PredictionsOf(Range(exact_match_urs))
        /\ ur_bm_predictions = PredictionsOf({BareName(best_match_urs[i]) :
                                                 i \in DOMAIN best_match_urs})


\* the number of entries of a ';'-joined column value
Entries(field) == IF field = <<>> THEN 0 ELSE Len(Split(field, SEMI))

\* C12: for every record, EXACT_MATCH_PREDIC has as many entries as
\* UR_EXACT_MATCH and BEST_MATCH_PREDIC as many as UR_BEST_MATCH, and when the
\* record has an exact match BEST_MATCH_PREDIC equals EXACT_MATCH_PREDIC
C12_OnePredictionPerLabel ==
    \A r \in DOMAIN prediction_data :
        /\ Entries(prediction_data[r][1]) = Entries(match_data[r][1])
        /\ Entries(prediction_data[r][2]) = Entries(match_data[r][3])
        /\ match_data[r][1] # <<>> => prediction_data[r][2] = prediction_data[r][1]


====
